---- MODULE Spec2Model ----
(***************************************************************************)
(* Model of the regeneration dispatch layer of src/components/Controls.tsx *)
(* (regenerateImage, its two adapters, the style catalogue, the aspect     *)
(* ratio mapper and the error normalisation in its catch block).           *)
(*                                                                         *)
(* Strings are sequences of fragments: "" is <<>>, concatenation is \o and *)
(* String.prototype.includes is a search for a contiguous run of           *)
(* fragments.  Every needle the code searches for ('API key not valid',    *)
(* '429', 'RESOURCE_EXHAUSTED', 'blocked') is one fragment, and every      *)
(* message the code builds is cut so that a needle never straddles two     *)
(* fragments.  An optional value (a `?:` field, an environment variable,   *)
(* the result of `?.`) is a sequence of length 0 (undefined) or 1.         *)
(***************************************************************************)
EXTENDS Integers, Sequences, FiniteSets, TLC

\* ------------------------------------------------------------------ bounds
MaxMsgLen == 2      \* fragments in a message thrown by the transport
MaxParts == 2       \* content parts in a candidate of generateContent
MaxImages == 2      \* slots in generatedImages of generateImages
MaxNum == 21        \* numerators of the ratios of SpecRatio
MaxDen == 32        \* denominators of the ratios of SpecRatio

\* --------------------------------------------------------- optional values
Undefined == <<>>
Some(v) == <<v>>
EmptyStr == <<>>

\* JavaScript truthiness of an optional string (`!prompt`, `!apiKey`,
\* `if (x?.imageBytes)`): undefined and "" are falsy.
TruthyDefined(o) == o # Undefined
Truthy(o) == o # Undefined /\ o[1] # EmptyStr

\* `${o}`: how a template literal renders an optional string
templateString(o) == IF o = Undefined THEN <<"undefined">> ELSE o[1]

\* String.prototype.includes
includes(msg, needle) ==
  \E i \in 0..(Len(msg) - Len(needle)) :
     \A j \in 1..Len(needle) : msg[i + j] = needle[j]

\* ------------------------------------------------------------ src/types.ts
REALISTIC == "Hyper-Realistic"
CARTOON == "Vibrant Cartoon"
THREE_D_PIXAR == "3D Pixar Style"
ANIME == "Japanese Anime"
VINTAGE_PHOTO == "Vintage Sepia Photograph"
CLAYMATION == "Claymation Stop-motion"
FANTASY_ART == "Digital Fantasy Art"
NEON_PUNK == "Neon Punk"

ArtStyle ==
  {REALISTIC, CARTOON, THREE_D_PIXAR, ANIME, VINTAGE_PHOTO, CLAYMATION,
   FANTASY_ART, NEON_PUNK}

RegenerationModel == {"gemini", "imagen"}

\* ----------------------------------------------------------- StyleCatalog
getGeminiInstructionalPrompt(style) ==
  CASE style = REALISTIC -> <<"Recreate this image as an ultra-realistic, photorealistic, high-detail photograph. It should look like it was shot with a professional DSLR camera, with sharp focus and intricate details.">>
    [] style = CARTOON -> <<"Recreate this image as a vibrant, colorful, bold-lined cartoon illustration in a playful style. Use cel-shading, expressive characters, and clean lines.">>
    [] style = THREE_D_PIXAR -> <<"Recreate this image in the style of a modern 3D animated film, like those from Pixar. It should have soft lighting, detailed textures, and expressive, rounded characters with a friendly and appealing look.">>
    [] style = ANIME -> <<"Recreate this image as a beautiful Japanese anime scene, in the style of a critically acclaimed animation studio. It should have detailed background art, cel-shaded characters, and cinematic anime lighting.">>
    [] style = VINTAGE_PHOTO -> <<"Recreate this image as an authentic-looking vintage sepia photograph from the early 20th century. It should have a grainy texture, faded tones, and soft focus to capture a timeless moment.">>
    [] style = CLAYMATION -> <<"Recreate this image as a charming claymation stop-motion scene with a handcrafted look. The models should be textured with visible fingerprints in the clay, and have whimsical lighting.">>
    [] style = FANTASY_ART -> <<"Recreate this image as an epic digital fantasy art painting. It needs ethereal lighting, intricate details, and a mythical atmosphere, in the style of a high-fantasy book cover.">>
    [] style = NEON_PUNK -> <<"Recreate this image as a neon-drenched, cyberpunk cityscape scene. It should have glowing neon lights, rainy streets with reflections, high-tech gadgets, and a dystopian 'neon punk' aesthetic.">>
    [] OTHER -> <<"Recreate this image in the style of a high-detail, cinematic image with the theme of '", style, "'.">>

getImagenStyleSuffix(style) ==
  CASE style = REALISTIC -> <<", ultra-realistic, photorealistic, 8k, sharp focus, professional DSLR photo.">>
    [] style = CARTOON -> <<", vibrant cartoon illustration, bold lines, cel-shaded, playful style.">>
    [] style = THREE_D_PIXAR -> <<", in the style of a 3D Pixar animated film, soft lighting, detailed textures, expressive characters.">>
    [] style = ANIME -> <<", beautiful Japanese anime scene, style of a top animation studio, cinematic anime lighting.">>
    [] style = VINTAGE_PHOTO -> <<", authentic vintage sepia photograph, grainy texture, faded tones, early 20th century.">>
    [] style = CLAYMATION -> <<", charming claymation stop-motion scene, handcrafted look, visible fingerprints in the clay.">>
    [] style = FANTASY_ART -> <<", epic digital fantasy art painting, ethereal lighting, intricate details, mythical atmosphere.">>
    [] style = NEON_PUNK -> <<", neon-drenched cyberpunk cityscape, glowing neon lights, rainy streets, dystopian aesthetic.">>
    [] OTHER -> <<", in the style of ", style, ".">>

\* ------------------------------------------------------ AspectRatioMapper
\* A ratio is an exact fraction <<numerator, denominator>>, both positive.
\* supportedRatios in the order its keys are written, which is the order
\* `for (const key in supportedRatios)` visits them.
supportedRatios ==
  << [key |-> "1:1", value |-> <<1, 1>>],
     [key |-> "4:3", value |-> <<4, 3>>],
     [key |-> "3:4", value |-> <<3, 4>>],
     [key |-> "16:9", value |-> <<16, 9>>],
     [key |-> "9:16", value |-> <<9, 16>>] >>

Abs(n) == IF n < 0 THEN -n ELSE n

\* Math.abs(a - b) of two fractions, as a fraction
AbsDiff(a, b) == <<Abs(a[1] * b[2] - b[1] * a[2]), a[2] * b[2]>>

\* x < y for two non-negative fractions
LessThan(x, y) == x[1] * y[2] < y[1] * x[2]

\* closestFrom with `diff <= minDiff` in place of `diff < minDiff`
RECURSIVE closestFrom_LastWins(_, _, _, _)
closestFrom_LastWins(ratio, i, closest, minDiff) ==
  IF i > Len(supportedRatios) THEN closest
  ELSE LET diff == AbsDiff(ratio, supportedRatios[i].value)
       IN  IF ~LessThan(minDiff, diff)
             THEN closestFrom_LastWins(ratio, i + 1, i, diff)
             ELSE closestFrom_LastWins(ratio, i + 1, closest, minDiff)

\* the body of the for-in loop from entry i on; `closest` is an index into
\* supportedRatios and minDiff the smallest difference seen so far
RECURSIVE closestFrom(_, _, _, _)
closestFrom(ratio, i, closest, minDiff) ==
  IF i > Len(supportedRatios) THEN closest
  ELSE LET diff == AbsDiff(ratio, supportedRatios[i].value)
       IN  IF LessThan(diff, minDiff)
             THEN closestFrom(ratio, i + 1, i, diff)
             ELSE closestFrom(ratio, i + 1, closest, minDiff)

mapAspectRatioToImagen(ratio) ==
  supportedRatios[
    closestFrom(ratio, 1, 1, AbsDiff(ratio, supportedRatios[1].value))].key

\* ------------------------------------------------------- errors, results
\* A thrown value.  isError is `error instanceof Error`; origin is the
\* place that constructed the object, so that two thrown values are the
\* same object only if they agree on it: "dispatcher" (lines 376, 381),
\* "client" (line 141), "adapter" (lines 309, 312, 347, 350), "transport"
\* (thrown by the remote call) and "normalizer" (lines 389, 392, 399).
NewError(message, origin) ==
  [isError |-> TRUE, message |-> message, origin |-> origin]

NoError == [isError |-> FALSE, message |-> EmptyStr, origin |-> "none"]

\* How a promise settles: still pending, fulfilled with {image, prompt},
\* or rejected with a thrown value.
Pending ==
  [kind |-> "pending", image |-> EmptyStr, prompt |-> EmptyStr, error |-> NoError]
Return(image, prompt) ==
  [kind |-> "return", image |-> image, prompt |-> prompt, error |-> NoError]
Throw(error) ==
  [kind |-> "throw", image |-> EmptyStr, prompt |-> EmptyStr, error |-> error]

\* the messages the code builds
KeyNotSetMessage ==
  <<"Gemini API key is not set. Please configure the API_KEY environment variable.">>
PromptRequiredMessage == <<"A text prompt is required for the Imagen model.">>
ImageDataRequiredMessage == <<"Base64 image data is required for the Gemini model.">>
GeminiBlockedMessage(reason) ==
  <<"Image regeneration was ", "blocked", ". Reason: ">> \o reason
    \o <<". Please try a different style or frame.">>
ImagenBlockedMessage(reason) ==
  <<"Image generation was ", "blocked", ". Reason: ">> \o reason
    \o <<". Please try a different frame.">>
NoImageGeminiMessage == <<"No image was generated by Gemini.">>
NoImageImagenMessage == <<"No image was generated by Imagen.">>
KeyNotValidMessage ==
  <<"Your Gemini API key is not valid. Please check your configuration.">>
RateLimitMessage == <<"API rate limit or quota exceeded. Please try again later.">>
\* FailedMessage without the name of the model
FailedMessage_ModelOmitted(model) ==
  <<"Failed to regenerate image. Check the console for details.">>

FailedMessage(model) ==
  <<"Failed to regenerate image with ", model, ". Check the console for details.">>

\* ------------------------------------------------------------ getAiClient
\* TRUE iff a client is constructed; otherwise line 141 throws.
getAiClient(apiKey) == Truthy(apiKey)

\* ---------------------------------------------------- ImageToImageAdapter
\* the request regenerateImageWithGemini sends (lines 285-296); base64Data
\* is the optional field of the options, handed over as it is
GeminiRequest(base64Data, style) ==
  [op |-> "generateContent",
   model |-> "gemini-2.5-flash-image-preview",
   prompt |-> getGeminiInstructionalPrompt(style),
   data |-> base64Data,
   numberOfImages |-> Undefined,
   aspectRatio |-> Undefined]

\* response.candidates?.[0]
FirstCandidate(response) ==
  IF TruthyDefined(response.candidates) /\ Len(response.candidates[1]) > 0
    THEN Some(response.candidates[1][1])
    ELSE Undefined

\* firstInlinePart scanning on past a part with inlineData: the last wins
RECURSIVE firstInlinePart_LastWins(_, _)
firstInlinePart_LastWins(parts, i) ==
  IF i > Len(parts) THEN 0
  ELSE LET later == firstInlinePart_LastWins(parts, i + 1)
       IN  IF later > 0 THEN later
           ELSE IF TruthyDefined(parts[i].inlineData) THEN i ELSE 0

\* index of the first part with inlineData from part i on, 0 if none
RECURSIVE firstInlinePart(_, _)
firstInlinePart(parts, i) ==
  IF i > Len(parts) THEN 0
  ELSE IF TruthyDefined(parts[i].inlineData) THEN i
  ELSE firstInlinePart(parts, i + 1)

\* candidate?.finishReason and candidate?.content?.parts
finishReasonOf(candidate) ==
  IF candidate = Undefined THEN Undefined ELSE candidate[1].finishReason
partsOf(candidate) ==
  IF candidate = Undefined THEN Undefined ELSE candidate[1].parts

\* `candidate?.finishReason || response.promptFeedback?.blockReason`
geminiReason(candidate, response) ==
  IF Truthy(finishReasonOf(candidate))
    THEN finishReasonOf(candidate)[1]
    ELSE templateString(response.blockReason)

\* lines 298-312: what the adapter does with a fulfilled generateContent
parseGeminiResponse(response, finalPrompt) ==
  LET candidate == FirstCandidate(response)
      parts == partsOf(candidate)
      k == IF TruthyDefined(parts) THEN firstInlinePart(parts[1], 1) ELSE 0
  IN  IF k > 0
        THEN Return(parts[1][k].inlineData[1], finalPrompt)
      ELSE IF \/ finishReasonOf(candidate) = Some(<<"SAFETY">>)
              \/ finishReasonOf(candidate) = Some(<<"RECITATION">>)
              \/ Truthy(response.blockReason)
        THEN Throw(NewError(GeminiBlockedMessage(geminiReason(candidate, response)),
                            "adapter"))
      ELSE Throw(NewError(NoImageGeminiMessage, "adapter"))

\* ----------------------------------------------------- TextToImageAdapter
\* imagenFinalPrompt with the suffix put first
imagenFinalPrompt_SuffixFirst(basePrompt, style) ==
  getImagenStyleSuffix(style) \o templateString(basePrompt)

\* line 328; basePrompt is the optional field of the options
imagenFinalPrompt(basePrompt, style) ==
  templateString(basePrompt) \o getImagenStyleSuffix(style)

\* the request generateImageWithImagen sends (lines 330-338)
ImagenRequest(basePrompt, style, aspectRatio) ==
  [op |-> "generateImages",
   model |-> "imagen-4.0-generate-001",
   prompt |-> imagenFinalPrompt(basePrompt, style),
   data |-> Undefined,
   numberOfImages |-> Some(1),
   aspectRatio |-> Some(mapAspectRatioToImagen(aspectRatio))]

\* response.generatedImages?.[0]?.image?.imageBytes
FirstImageBytes(response) ==
  IF TruthyDefined(response.generatedImages) /\ Len(response.generatedImages[1]) > 0
    THEN response.generatedImages[1][1].imageBytes
    ELSE Undefined

\* lines 340-350: what the adapter does with a fulfilled generateImages
parseImagenResponse(response, finalPrompt) ==
  IF Truthy(FirstImageBytes(response))
    THEN Return(FirstImageBytes(response)[1], finalPrompt)
  ELSE IF Truthy(response.blockReason)
    THEN Throw(NewError(ImagenBlockedMessage(response.blockReason[1]), "adapter"))
  ELSE Throw(NewError(NoImageImagenMessage, "adapter"))

\* ------------------------------------------------- RegenerationDispatcher
\* normalizeError with the pass-through of 'blocked' tested first
normalizeError_BlockedFirst(error, model) ==
  IF error.isError /\ includes(error.message, <<"blocked">>)
    THEN error
  ELSE IF error.isError /\ includes(error.message, <<"API key not valid">>)
    THEN NewError(KeyNotValidMessage, "normalizer")
  ELSE IF error.isError /\ (\/ includes(error.message, <<"429">>)
                            \/ includes(error.message, <<"RESOURCE_EXHAUSTED">>))
    THEN NewError(RateLimitMessage, "normalizer")
  ELSE NewError(FailedMessage(model), "normalizer")

\* the catch block of regenerateImage (lines 385-400): the value that
\* leaves regenerateImage when `error` was caught
normalizeError(error, model) ==
  IF error.isError /\ includes(error.message, <<"API key not valid">>)
    THEN NewError(KeyNotValidMessage, "normalizer")
  ELSE IF error.isError /\ (\/ includes(error.message, <<"429">>)
                            \/ includes(error.message, <<"RESOURCE_EXHAUSTED">>))
    THEN NewError(RateLimitMessage, "normalizer")
  ELSE IF error.isError /\ includes(error.message, <<"blocked">>)
    THEN error
  ELSE NewError(FailedMessage(model), "normalizer")

\* ------------------------------------------------------------------ state
\* identities of the calls of regenerateImage the model follows
Dispatches == {1, 2, 3}

VARIABLES
  apiKey,         \* process.env.API_KEY
  pc,             \* pc[d]: where dispatch d stands
  options,        \* options[d]: the RegenerateOptions d was called with
  calls,          \* calls[d]: the requests d handed to the transport, in order
  reply,          \* reply[d]: how the transport settled d's request
  adapterResult,  \* adapterResult[d]: how the adapter's promise settled
  outcome,        \* outcome[d]: how the promise of regenerateImage settled
  console         \* what console.error was given, in order

vars == <<apiKey, pc, options, calls, reply, adapterResult, outcome, console>>

\* --------------------------------------------------------------- inputs
UnnamedStyle == "Watercolor"
Styles == ArtStyle \cup {UnnamedStyle}

Source == <<"/9j/SOURCE">>
ImageA == <<"/9j/A">>
ImageB == <<"/9j/B">>

ApiKeys == {Undefined, Some(EmptyStr), Some(<<"AIza-key">>)}
Base64Inputs == {Undefined, Some(EmptyStr), Some(Source)}
PromptInputs ==
  {Undefined, Some(EmptyStr), Some(<<"a cat on a mat">>),
   Some(<<"a harbour", " at dusk">>)}
RatioInputs == {<<16, 9>>, <<7, 8>>}

Requests ==
  [model : RegenerationModel, style : Styles, aspectRatio : RatioInputs,
   base64Data : Base64Inputs, prompt : PromptInputs]

NoOptions ==
  [model |-> "none", style |-> "none", aspectRatio |-> <<1, 1>>,
   base64Data |-> Undefined, prompt |-> Undefined]

\* sequences over S of length at most n
SeqUpTo(S, n) == UNION {[1..k -> S] : k \in 0..n}

\* what the transport can throw: an Error or some other value, with a
\* message made of the fragments the catch block looks for and one other
MessageFragments ==
  {"API key not valid", "429", "RESOURCE_EXHAUSTED", "blocked", "ECONNRESET"}
TransportErrors ==
  [isError : BOOLEAN, message : SeqUpTo(MessageFragments, MaxMsgLen),
   origin : {"transport"}]

\* what generateContent can answer
FinishReasons == {Undefined, Some(<<"STOP">>), Some(<<"SAFETY">>), Some(<<"RECITATION">>)}
BlockReasons == {Undefined, Some(<<"SAFETY">>), Some(<<"OTHER">>)}
Parts == {[inlineData |-> Undefined], [inlineData |-> Some(ImageA)],
          [inlineData |-> Some(ImageB)]}
Candidates ==
  [parts : {Undefined} \cup {Some(ps) : ps \in SeqUpTo(Parts, MaxParts)},
   finishReason : FinishReasons]
LaterCandidate == [parts |-> Some(<<[inlineData |-> Some(ImageB)]>>),
                   finishReason |-> Some(<<"STOP">>)]
GeminiResponses ==
  [candidates : {Undefined, Some(<<>>)}
                  \cup {Some(<<c>>) : c \in Candidates}
                  \cup {Some(<<c, LaterCandidate>>) : c \in Candidates},
   blockReason : BlockReasons]

\* what generateImages can answer
ImageSlots == {[imageBytes |-> Undefined], [imageBytes |-> Some(EmptyStr)],
               [imageBytes |-> Some(ImageA)]}
ImagenResponses ==
  [generatedImages : {Undefined} \cup {Some(g) : g \in SeqUpTo(ImageSlots, MaxImages)},
   blockReason : BlockReasons]

NoReply == [kind |-> "none"]
Resolved(response) == [kind |-> "resolve", response |-> response]
Rejected(error) == [kind |-> "reject", error |-> error]

\* ------------------------------------------------------------------ Init
Init ==
  /\ apiKey \in ApiKeys
  /\ pc = [d \in Dispatches |-> "idle"]
  /\ options = [d \in Dispatches |-> NoOptions]
  /\ calls = [d \in Dispatches |-> <<>>]
  /\ reply = [d \in Dispatches |-> NoReply]
  /\ adapterResult = [d \in Dispatches |-> Pending]
  /\ outcome = [d \in Dispatches |-> Pending]
  /\ console = <<>>

\* --------------------------------------------------------------- actions
\* inputMissing with the check of line 380 left out
inputMissing_GeminiUnchecked(opts) ==
  IF opts.model = "imagen" THEN ~Truthy(opts.prompt) ELSE FALSE

\* the required per-model input is missing (lines 375, 380)
inputMissing(opts) ==
  IF opts.model = "imagen" THEN ~Truthy(opts.prompt) ELSE ~Truthy(opts.base64Data)

\* the error thrown at line 376 or 381
missingInputError(opts) ==
  IF opts.model = "imagen"
    THEN NewError(PromptRequiredMessage, "dispatcher")
    ELSE NewError(ImageDataRequiredMessage, "dispatcher")

\* the request the adapter chosen at lines 374-384 sends
adapterRequest(opts) ==
  IF opts.model = "imagen"
    THEN ImagenRequest(opts.prompt, opts.style, opts.aspectRatio)
    ELSE GeminiRequest(opts.base64Data, opts.style)

\* requestsSent with the request issued a second time
requestsSent_Twice(opts) == <<adapterRequest(opts), adapterRequest(opts)>>

\* the requests the synchronous part of the adapter hands to the transport
requestsSent(opts) == <<adapterRequest(opts)>>

\* finalPrompt of the adapter in use (lines 283, 328)
finalPromptOf(opts) == adapterRequest(opts).prompt

\* The caller calls regenerateImage(opts); the code runs up to its first
\* suspension.  A missing input is thrown and caught in the same turn
\* (lines 375-377, 380-382, 385-400).  Otherwise the adapter runs: with no
\* credential getAiClient throws and the adapter's promise is rejected
\* (lines 282, 327); with one, the request is sent and the adapter awaits.
regenerateImage(d, opts) ==
  /\ pc[d] = "idle"
  /\ options' = [options EXCEPT ![d] = opts]
  /\ UNCHANGED <<apiKey, reply>>
  /\ IF inputMissing(opts)
       THEN /\ pc' = [pc EXCEPT ![d] = "done"]
            /\ console' = Append(console,
                  [model |-> opts.model, error |-> missingInputError(opts)])
            /\ outcome' = [outcome EXCEPT
                  ![d] = Throw(normalizeError(missingInputError(opts), opts.model))]
            /\ UNCHANGED <<calls, adapterResult>>
     ELSE IF ~getAiClient(apiKey)
       THEN /\ pc' = [pc EXCEPT ![d] = "returning"]
            /\ adapterResult' = [adapterResult EXCEPT
                  ![d] = Throw(NewError(KeyNotSetMessage, "client"))]
            /\ UNCHANGED <<calls, outcome, console>>
     ELSE /\ pc' = [pc EXCEPT ![d] = "awaiting"]
          /\ calls' = [calls EXCEPT ![d] = calls[d] \o requestsSent(opts)]
          /\ UNCHANGED <<adapterResult, outcome, console>>

\* the responses the transport can give to what d asked
ResponsesFor(d) ==
  IF calls[d][Len(calls[d])].op = "generateImages"
    THEN ImagenResponses ELSE GeminiResponses

\* the remote call of d is answered
transportResolve(d, response) ==
  /\ pc[d] = "awaiting"
  /\ response \in ResponsesFor(d)
  /\ pc' = [pc EXCEPT ![d] = "settled"]
  /\ reply' = [reply EXCEPT ![d] = Resolved(response)]
  /\ UNCHANGED <<apiKey, options, calls, adapterResult, outcome, console>>

\* the remote call of d fails
transportReject(d, error) ==
  /\ pc[d] = "awaiting"
  /\ pc' = [pc EXCEPT ![d] = "settled"]
  /\ reply' = [reply EXCEPT ![d] = Rejected(error)]
  /\ UNCHANGED <<apiKey, options, calls, adapterResult, outcome, console>>

\* what the adapter's promise settles to once the remote call has settled:
\* a rejection passes through the adapter untouched, a response is parsed
adapterSettles(opts, r) ==
  IF r.kind = "reject" THEN Throw(r.error)
  ELSE IF opts.model = "imagen"
    THEN parseImagenResponse(r.response, finalPromptOf(opts))
  ELSE parseGeminiResponse(r.response, finalPromptOf(opts))

\* adapterResume with the settled reply kept in one place for all
\* dispatches of a model: d parses whichever settled reply is found there
adapterResume_SharedReply(d) ==
  /\ pc[d] = "settled"
  /\ pc' = [pc EXCEPT ![d] = "returning"]
  /\ LET e == CHOOSE e \in Dispatches :
                 pc[e] = "settled" /\ options[e].model = options[d].model
     IN  adapterResult' = [adapterResult EXCEPT
           ![d] = adapterSettles(options[d], reply[e])]
  /\ UNCHANGED <<apiKey, options, calls, reply, outcome, console>>

\* the adapter resumes after `await ai.models.generate...` (lines 298-312,
\* 340-350)
adapterResume(d) ==
  /\ pc[d] = "settled"
  /\ pc' = [pc EXCEPT ![d] = "returning"]
  /\ adapterResult' = [adapterResult EXCEPT ![d] = adapterSettles(options[d], reply[d])]
  /\ UNCHANGED <<apiKey, options, calls, reply, outcome, console>>

\* regenerateImage resumes after `return await <adapter>` (lines 378, 383):
\* a result is returned, a rejection enters the catch block (lines 385-400)
dispatcherResume(d) ==
  /\ pc[d] = "returning"
  /\ pc' = [pc EXCEPT ![d] = "done"]
  /\ IF adapterResult[d].kind = "return"
       THEN /\ outcome' = [outcome EXCEPT ![d] = adapterResult[d]]
            /\ UNCHANGED console
       ELSE /\ console' = Append(console,
                  [model |-> options[d].model, error |-> adapterResult[d].error])
            /\ outcome' = [outcome EXCEPT
                  ![d] = Throw(normalizeError(adapterResult[d].error, options[d].model))]
  /\ UNCHANGED <<apiKey, options, calls, reply, adapterResult>>

\* one dispatch, every request, every answer of the transport
Next ==
  \/ \E opts \in Requests : regenerateImage(1, opts)
  \/ \E response \in GeminiResponses \cup ImagenResponses : transportResolve(1, response)
  \/ \E error \in TransportErrors : transportReject(1, error)
  \/ adapterResume(1)
  \/ dispatcherResume(1)

Spec == Init /\ [][Next]_vars

\* ---------------------------------------------- the aspect ratio mapper
\* every positive fraction with bounded numerator and denominator
Ratios == (1..MaxNum) \X (1..MaxDen)

RatioRequest(ratio) ==
  [model |-> "imagen", style |-> REALISTIC, aspectRatio |-> ratio,
   base64Data |-> Undefined, prompt |-> Some(<<"a cat on a mat">>)]

InitRatio == Init /\ Truthy(apiKey)

\* imagen dispatches over every ratio: the mapper is applied when the
\* request is built
NextRatio == \E ratio \in Ratios : regenerateImage(1, RatioRequest(ratio))

SpecRatio == InitRatio /\ [][NextRatio]_vars

\* -------------------------------------------------- concurrent dispatches
\* the requests, answers and failures of the concurrent dispatches
ConcurrentRequests ==
  {[model |-> "gemini", style |-> REALISTIC, aspectRatio |-> <<16, 9>>,
    base64Data |-> Some(Source), prompt |-> Undefined],
   [model |-> "imagen", style |-> REALISTIC, aspectRatio |-> <<16, 9>>,
    base64Data |-> Undefined, prompt |-> Some(<<"a cat on a mat">>)],
   [model |-> "imagen", style |-> REALISTIC, aspectRatio |-> <<16, 9>>,
    base64Data |-> Undefined, prompt |-> Undefined]}

ConcurrentResponses ==
  {[candidates |-> Some(<<[parts |-> Some(<<[inlineData |-> Some(ImageA)]>>),
                          finishReason |-> Some(<<"STOP">>)]>>),
    blockReason |-> Undefined],
   [candidates |-> Some(<<[parts |-> Some(<<[inlineData |-> Some(ImageB)]>>),
                          finishReason |-> Some(<<"STOP">>)]>>),
    blockReason |-> Undefined],
   [candidates |-> Some(<<[parts |-> Undefined,
                          finishReason |-> Some(<<"SAFETY">>)]>>),
    blockReason |-> Undefined],
   [generatedImages |-> Some(<<[imageBytes |-> Some(ImageA)]>>),
    blockReason |-> Undefined],
   [generatedImages |-> Undefined, blockReason |-> Undefined]}

ConcurrentErrors ==
  {[isError |-> TRUE, message |-> <<"429">>, origin |-> "transport"],
   [isError |-> TRUE, message |-> <<"ECONNRESET">>, origin |-> "transport"]}

\* the caller starts up to three dispatches (one per frame) and does not
\* wait for one before it starts the next; every step of one dispatch may
\* fall between any two steps of another
NextConcurrent ==
  \E d \in Dispatches :
    \/ \E opts \in ConcurrentRequests : regenerateImage(d, opts)
    \/ \E response \in ConcurrentResponses : transportResolve(d, response)
    \/ \E error \in ConcurrentErrors : transportReject(d, error)
    \/ adapterResume(d)
    \/ dispatcherResume(d)

SpecConcurrent == Init /\ [][NextConcurrent]_vars

\* ================================================================ claims
\* dispatch d was called with its required per-model input absent
RequiredInputAbsent(d) ==
  \/ options[d].model = "imagen" /\ options[d].prompt = Undefined
  \/ options[d].model = "gemini" /\ options[d].base64Data = Undefined

\* the message that names the input model m requires
RequiredInputMessage(m) ==
  IF m = "imagen" THEN PromptRequiredMessage ELSE ImageDataRequiredMessage

\* the categories of the error taxonomy, read off the error the caller gets
IsInvalidCredentials(e) == e.message = KeyNotValidMessage
IsRateLimited(e) == e.message = RateLimitMessage
IsUnknownFailure(e, m) == e.message = FailedMessage(m)
IsAdapterBlocked(e) == e.origin = "adapter" /\ includes(e.message, <<"blocked">>)

\* C1: a dispatch whose required per-model input is absent ends in an error
\* whose message states that a text prompt (imagen) or image data (gemini)
\* is required, and which is not an UnknownFailure.
C1_MissingInputIsReported ==
  \A d \in Dispatches :
    (pc[d] = "done" /\ RequiredInputAbsent(d)) =>
      /\ outcome[d].kind = "throw"
      /\ includes(outcome[d].error.message, RequiredInputMessage(options[d].model))
      /\ ~IsUnknownFailure(outcome[d].error, options[d].model)

\* C2: a dispatch whose required per-model input is absent ends in an error
\* and hands no request to the transport, in any state of the dispatch.
C2_NoCallOnMissingInput ==
  \A d \in Dispatches :
    (pc[d] # "idle" /\ RequiredInputAbsent(d)) =>
      /\ Len(calls[d]) = 0
      /\ pc[d] = "done"
      /\ outcome[d].kind = "throw"

\* a dispatch to gemini without image data has ended although a credential
\* was there to make a call with
C2_Witness ==
  /\ pc[1] = "done"
  /\ options[1].model = "gemini"
  /\ options[1].base64Data = Undefined
  /\ Truthy(apiKey)
  /\ outcome[1].kind = "throw"

\* C3: an error leaving regenerateImage is InvalidCredentials, RateLimited,
\* a Blocked error built by an adapter, or UnknownFailure, and is never the
\* object the transport threw.
C3_OnlyNormalizedErrorsLeave ==
  \A d \in Dispatches :
    (pc[d] = "done" /\ outcome[d].kind = "throw") =>
      /\ \/ IsInvalidCredentials(outcome[d].error)
         \/ IsRateLimited(outcome[d].error)
         \/ IsAdapterBlocked(outcome[d].error)
         \/ IsUnknownFailure(outcome[d].error, options[d].model)
      /\ outcome[d].error.origin # "transport"

\* the adapter call of d raised an error that the catch block classified as
\* none of InvalidCredentials, RateLimited, Blocked
AdapterErrorUnclassified(d) ==
  /\ pc[d] = "done"
  /\ adapterResult[d].kind = "throw"
  /\ outcome[d].kind = "throw"
  /\ ~IsInvalidCredentials(outcome[d].error)
  /\ ~IsRateLimited(outcome[d].error)
  /\ outcome[d].error # adapterResult[d].error

\* C4 as stated: the UnknownFailure error the caller receives contains the
\* message of the error the adapter call raised and names the model.
C4_UnknownFailureWrapsOriginal ==
  \A d \in Dispatches :
    AdapterErrorUnclassified(d) =>
      /\ includes(outcome[d].error.message, adapterResult[d].error.message)
      /\ includes(outcome[d].error.message, <<options[d].model>>)

\* C4 as amended: the UnknownFailure error the caller receives is a new
\* error whose message is 'Failed to regenerate image with <model>. Check
\* the console for details.', naming the model in use; the error the
\* adapter call raised is handed to console.error together with the model.
C4_UnknownFailureNamesModel ==
  \A d \in Dispatches :
    AdapterErrorUnclassified(d) =>
      /\ outcome[d].error.origin = "normalizer"
      /\ outcome[d].error.message =
           <<"Failed to regenerate image with ", options[d].model,
             ". Check the console for details.">>
      /\ includes(outcome[d].error.message, <<options[d].model>>)
      /\ \E i \in 1..Len(console) :
            console[i] = [model |-> options[d].model,
                          error |-> adapterResult[d].error]

\* the transport failed with a message the catch block knows nothing of,
\* and the caller got the UnknownFailure of imagen
C4_Witness ==
  /\ AdapterErrorUnclassified(1)
  /\ options[1].model = "imagen"
  /\ reply[1].kind = "reject"
  /\ reply[1].error.message = <<"ECONNRESET">>
  /\ IsUnknownFailure(outcome[1].error, "imagen")

\* the response generateContent gave to d has no inline image in its first
\* candidate
NoInlineImage(d) ==
  LET parts == partsOf(FirstCandidate(reply[d].response))
  IN  parts = Undefined \/ \A i \in 1..Len(parts[1]) : parts[1][i].inlineData = Undefined

\* the finishReason of the first candidate is a block signal
FinishReasonBlocks(d) ==
  finishReasonOf(FirstCandidate(reply[d].response))
    \in {Some(<<"SAFETY">>), Some(<<"RECITATION">>)}

\* C5: a gemini dispatch whose response has no inline image in the first
\* candidate and carries a block signal ends in the Blocked error of the
\* adapter, passed through unchanged, whose message contains the reason that
\* triggered the block: the finishReason when that is SAFETY or RECITATION,
\* the response-level blockReason otherwise.
C5_BlockedCarriesTriggeringReason ==
  \A d \in Dispatches :
    (/\ pc[d] = "done"
     /\ options[d].model = "gemini"
     /\ reply[d].kind = "resolve"
     /\ NoInlineImage(d)
     /\ FinishReasonBlocks(d) \/ reply[d].response.blockReason # Undefined) =>
      /\ outcome[d].kind = "throw"
      /\ outcome[d].error = adapterResult[d].error
      /\ IsAdapterBlocked(outcome[d].error)
      /\ IF FinishReasonBlocks(d)
           THEN includes(outcome[d].error.message,
                         finishReasonOf(FirstCandidate(reply[d].response))[1])
           ELSE includes(outcome[d].error.message, reply[d].response.blockReason[1])

\* the remote call of d threw an Error whose message has the 429 or the
\* RESOURCE_EXHAUSTED signal
RateLimitThrown(d) ==
  /\ pc[d] = "done"
  /\ reply[d].kind = "reject"
  /\ reply[d].error.isError
  /\ \/ includes(reply[d].error.message, <<"429">>)
     \/ includes(reply[d].error.message, <<"RESOURCE_EXHAUSTED">>)

\* C6 as stated: whenever the remote call throws an error whose message
\* contains "429" or RESOURCE_EXHAUSTED, the caller receives RateLimited,
\* whatever else the message contains and whichever the model.
C6_RateLimitedWhateverElse ==
  \A d \in Dispatches :
    RateLimitThrown(d) =>
      outcome[d].kind = "throw" /\ IsRateLimited(outcome[d].error)

\* C6 as amended: whenever the remote call throws an Error whose message
\* contains "429" or RESOURCE_EXHAUSTED and does not contain 'API key not
\* valid', the caller receives RateLimited, whatever else the message
\* contains and whichever the model; when it also contains 'API key not
\* valid', the caller receives InvalidCredentials.
C6_RateLimitedUnlessKeyInvalid ==
  \A d \in Dispatches :
    RateLimitThrown(d) =>
      /\ outcome[d].kind = "throw"
      /\ IF includes(reply[d].error.message, <<"API key not valid">>)
           THEN IsInvalidCredentials(outcome[d].error)
           ELSE IsRateLimited(outcome[d].error)

\* the transport threw a message with the quota signal and 'blocked' in it,
\* and the caller got RateLimited
C6_Witness ==
  /\ RateLimitThrown(1)
  /\ reply[1].error.message = <<"blocked", "RESOURCE_EXHAUSTED">>
  /\ IsRateLimited(outcome[1].error)

\* C7: an imagen dispatch whose response has image bytes in the first
\* generated-image slot returns those bytes with the prompt basePrompt
\* followed by the style suffix, and that prompt is the one of the single
\* request sent, which asks for one image.
C7_ImagenReturnsBytesAndPrompt ==
  \A d \in Dispatches :
    (/\ pc[d] = "done"
     /\ options[d].model = "imagen"
     /\ reply[d].kind = "resolve"
     /\ Truthy(FirstImageBytes(reply[d].response))) =>
      LET expected == options[d].prompt[1] \o getImagenStyleSuffix(options[d].style)
      IN  /\ outcome[d].kind = "return"
          /\ outcome[d].image = FirstImageBytes(reply[d].response)[1]
          /\ outcome[d].prompt = expected
          /\ Len(calls[d]) = 1
          /\ calls[d][1].op = "generateImages"
          /\ calls[d][1].prompt = expected
          /\ calls[d][1].numberOfImages = Some(1)

\* an imagen dispatch with a two-fragment prompt and an unnamed style has
\* returned the image of the first slot
C7_Witness ==
  /\ pc[1] = "done"
  /\ options[1].model = "imagen"
  /\ options[1].prompt = Some(<<"a harbour", " at dusk">>)
  /\ options[1].style = UnnamedStyle
  /\ reply[1].kind = "resolve"
  /\ outcome[1].kind = "return"
  /\ outcome[1].image = ImageA
  /\ outcome[1].prompt =
       <<"a harbour", " at dusk", ", in the style of ", "Watercolor", ".">>

\* the place of token key in supportedRatios, 0 if it is not there
IndexOfKey(key) ==
  IF \E i \in 1..Len(supportedRatios) : supportedRatios[i].key = key
    THEN CHOOSE i \in 1..Len(supportedRatios) : supportedRatios[i].key = key
    ELSE 0

\* |r - reference i| as a fraction
DistanceTo(r, i) == AbsDiff(r, supportedRatios[i].value)

\* token key is a nearest reference of r and no reference listed before it
\* is as near
NearestFirstListed(r, key) ==
  LET k == IndexOfKey(key)
  IN  /\ k \in 1..Len(supportedRatios)
      /\ \A j \in 1..Len(supportedRatios) : ~LessThan(DistanceTo(r, j), DistanceTo(r, k))
      /\ \A j \in 1..(k - 1) : LessThan(DistanceTo(r, k), DistanceTo(r, j))

\* C8: the token sent for ratio r is one of 1:1, 4:3, 3:4, 16:9, 9:16, its
\* reference value minimizes |r - reference|, and among equidistant nearest
\* references it is the first in the order 1:1, 4:3, 3:4, 16:9, 9:16; so
\* 1.0 gives 1:1, 16/9 gives 16:9 and 0.75 gives 3:4.
C8_NearestRatioFirstWins ==
  \A d \in Dispatches :
    (pc[d] = "awaiting" /\ calls[d][1].op = "generateImages") =>
      LET r == options[d].aspectRatio
          key == calls[d][1].aspectRatio[1]
      IN  /\ key \in {"1:1", "4:3", "3:4", "16:9", "9:16"}
          /\ NearestFirstListed(r, key)
          /\ r[1] = r[2] => key = "1:1"
          /\ 9 * r[1] = 16 * r[2] => key = "16:9"
          /\ 4 * r[1] = 3 * r[2] => key = "3:4"

\* 21/32 is as far from 3/4 as from 9/16, and 3:4 was sent
C8_Witness ==
  /\ pc[1] = "awaiting"
  /\ options[1].aspectRatio = <<21, 32>>
  /\ DistanceTo(<<21, 32>>, 3)[1] * DistanceTo(<<21, 32>>, 5)[2]
       = DistanceTo(<<21, 32>>, 5)[1] * DistanceTo(<<21, 32>>, 3)[2]
  /\ calls[1][1].aspectRatio = Some("3:4")

\* the operation of the transport that model m stands for
OperationOf(m) == IF m = "imagen" THEN "generateImages" ELSE "generateContent"

\* dispatch d has its required per-model input
RequiredInputPresent(d) ==
  IF options[d].model = "imagen"
    THEN Truthy(options[d].prompt) ELSE Truthy(options[d].base64Data)

\* dispatch d has its required input and a client was constructed for it
InputAndClientPresent(d) ==
  /\ pc[d] # "idle"
  /\ Truthy(apiKey)
  /\ RequiredInputPresent(d)

\* C9: a dispatch whose required input is present and whose client is
\* constructed has made exactly one call to the transport, to the operation
\* of its model, in every state from its first suspension to its end,
\* whether the call failed or not; a failed call ends the dispatch in an
\* error.
C9_ExactlyOneCall ==
  \A d \in Dispatches :
    InputAndClientPresent(d) =>
      /\ Len(calls[d]) = 1
      /\ calls[d][1].op = OperationOf(options[d].model)
      /\ (pc[d] = "done" /\ reply[d].kind = "reject") => outcome[d].kind = "throw"

\* a gemini dispatch ended in RateLimited after its one call was rejected
C9_Witness ==
  /\ pc[1] = "done"
  /\ InputAndClientPresent(1)
  /\ options[1].model = "gemini"
  /\ reply[1].kind = "reject"
  /\ reply[1].error.message = <<"429">>
  /\ outcome[1].kind = "throw"
  /\ IsRateLimited(outcome[1].error)
  /\ Len(calls[1]) = 1

\* C10: with the credential absent a dispatch (taken with its required
\* input present, so that a client is asked for) ends in an error that
\* reports that the credential is not configured, which is neither
\* InvalidCredentials nor UnknownFailure, and no call reaches the transport.
C10_ConfigurationErrorReported ==
  \A d \in Dispatches :
    (pc[d] = "done" /\ apiKey = Undefined /\ RequiredInputPresent(d)) =>
      /\ outcome[d].kind = "throw"
      /\ includes(outcome[d].error.message, KeyNotSetMessage)
      /\ ~IsInvalidCredentials(outcome[d].error)
      /\ ~IsUnknownFailure(outcome[d].error, options[d].model)
      /\ Len(calls[d]) = 0

\* the content parts of the first candidate of the response d got, <<>> if
\* there is no first candidate or it has no parts
FirstCandidateParts(d) ==
  LET parts == partsOf(FirstCandidate(reply[d].response))
  IN  IF parts = Undefined THEN <<>> ELSE parts[1]

\* C12: a gemini dispatch whose first candidate has a part with inline
\* image data returns the data of the first such part in part order,
\* whatever later parts and later candidates carry, together with the
\* instructional prompt of the requested style, and it does so also when
\* the response carries a finishReason or a blockReason.
C12_FirstInlineImageReturned ==
  \A d \in Dispatches :
    (/\ pc[d] = "done"
     /\ options[d].model = "gemini"
     /\ reply[d].kind = "resolve"
     /\ \E i \in 1..Len(FirstCandidateParts(d)) :
           FirstCandidateParts(d)[i].inlineData # Undefined) =>
      LET parts == FirstCandidateParts(d)
          first == CHOOSE i \in 1..Len(parts) :
                     /\ parts[i].inlineData # Undefined
                     /\ \A j \in 1..(i - 1) : parts[j].inlineData = Undefined
      IN  /\ outcome[d].kind = "return"
          /\ outcome[d].image = parts[first].inlineData[1]
          /\ outcome[d].prompt = getGeminiInstructionalPrompt(options[d].style)

\* the first candidate had two image parts, a SAFETY finishReason and a
\* blockReason beside it and another candidate after it, and the image of
\* its first part was returned
C12_Witness ==
  /\ pc[1] = "done"
  /\ options[1].model = "gemini"
  /\ options[1].style = NEON_PUNK
  /\ reply[1].kind = "resolve"
  /\ reply[1].response.blockReason = Some(<<"OTHER">>)
  /\ reply[1].response.candidates =
       Some(<<[parts |-> Some(<<[inlineData |-> Some(ImageA)],
                               [inlineData |-> Some(ImageB)]>>),
              finishReason |-> Some(<<"SAFETY">>)],
             LaterCandidate>>)
  /\ outcome[1] = Return(ImageA, getGeminiInstructionalPrompt(NEON_PUNK))

\* two finished dispatches with the same request, to whose calls the
\* transport answered the same, have the same outcome
SameRequestSameOutcome ==
  \A d, e \in Dispatches :
    (/\ pc[d] = "done"
     /\ pc[e] = "done"
     /\ options[d] = options[e]
     /\ reply[d] = reply[e]) => outcome[d] = outcome[e]

\* a step leaves everything of a dispatch that did not take it as it was
OthersUntouched ==
  \A d \in Dispatches :
    pc'[d] = pc[d] =>
      /\ options'[d] = options[d]
      /\ calls'[d] = calls[d]
      /\ reply'[d] = reply[d]
      /\ adapterResult'[d] = adapterResult[d]
      /\ outcome'[d] = outcome[d]

\* C11: under every interleaving of concurrently running dispatches, the
\* outcome of a dispatch is determined by its own request and the answer to
\* its own call: two dispatches with the same request and the same answer
\* end with the same result or error, whatever a third does in between, and
\* no step of one dispatch changes the request, calls, answer or outcome of
\* another.
C11_DispatchesIndependent ==
  []SameRequestSameOutcome /\ [][OthersUntouched]_vars

\* dispatches 1 and 2 asked gemini for the same and both got image A, while
\* dispatch 3, with the same request, got image B: 1 and 2 agree, 3 has its
\* own image
C11_Witness ==
  /\ pc[1] = "done" /\ pc[2] = "done" /\ pc[3] = "done"
  /\ options[1].model = "gemini"
  /\ options[2] = options[1] /\ options[3] = options[1]
  /\ reply[1].kind = "resolve"
  /\ reply[2] = reply[1]
  /\ reply[3] # reply[1]
  /\ outcome[1] = Return(ImageA, getGeminiInstructionalPrompt(REALISTIC))
  /\ outcome[2] = outcome[1]
  /\ outcome[3] = Return(ImageB, getGeminiInstructionalPrompt(REALISTIC))

====
